---- MODULE Spec2Model ----
(***************************************************************************)
(* State-machine model of midi_sample_qzt (src/src/main.rs).               *)
(*                                                                         *)
(* Threads: the main thread (decode loop, client loop, sender check, MIDI  *)
(* connect, wait for enter, deactivate loop), one JACK process callback    *)
(* per client, and the MIDI input callback (the dispatcher).               *)
(* f32 samples are modelled as integers in units of 1e-4 (0.3201 = 3201).  *)
(***************************************************************************)
EXTENDS Integers, Sequences, FiniteSets, TLC

\* ------------------------------------------------------------ constants
NUM_CLIENT == 3
NOTE_ON == 144
Prime == 3201

\* ------------------------------------------------------------ bounds
\* note-ons played in one run (messages that are ignored are not limited)
MaxDispatch == 4
\* process-callback invocations in one run (all clients together)
MaxPeriods == 1
\* note-ons played in a run that does not limit the callbacks (SpecLive)
MaxDispatchL == 4
\* the same two bounds of the runs that look at the callbacks (SpecRender)
MaxDispatchR == 1
MaxPeriodsR == 2
\* frames (output slots) of one period
PeriodLen == 2
\* packets of a file in the runs that look at the decode loop (SpecDecode)
MaxPackets == 5

Chan == 0 .. (NUM_CLIENT - 1)
Slots == 1 .. PeriodLen
Range(s) == {s[k] : k \in 1 .. Len(s)}

\* ------------------------------------------------------------ inputs
\* A packet of a media file: the track it belongs to, what decoder.decode
\* (or format.next_packet) makes of it, and the samples it decodes to.
Pkt(t, k, s) == [track |-> t, kind |-> k, samples |-> s]

\* A media file: whether each start-up step on it succeeds, the id of its
\* default track, and its packets.
MediaFile(o, p, t, c, ps) ==
    [open |-> o, probe |-> p, has_track |-> t, codec |-> c, track_id |-> 0,
     packets |-> ps]

\* one corrupt packet in the middle
FKick ==
    MediaFile(TRUE, TRUE, TRUE, TRUE,
              <<Pkt(0, "ok", <<1>>), Pkt(0, "decode_error", <<7>>),
                Pkt(0, "ok", <<2>>)>>)
\* a packet of another track, then a terminal error before the last packet
FSnare ==
    MediaFile(TRUE, TRUE, TRUE, TRUE,
              <<Pkt(1, "ok", <<9>>), Pkt(0, "ok", <<3>>),
                Pkt(0, "io_error", <<8>>), Pkt(0, "ok", <<5>>)>>)
\* the reader fails before the last packet
FAlt ==
    MediaFile(TRUE, TRUE, TRUE, TRUE,
              <<Pkt(0, "ok", <<4>>), Pkt(0, "reader_error", <<>>),
                Pkt(0, "ok", <<6>>)>>)
FMissing == MediaFile(FALSE, TRUE, TRUE, TRUE, <<>>)
FUnknown == MediaFile(TRUE, FALSE, TRUE, TRUE, <<>>)
FNoTrack == MediaFile(TRUE, TRUE, FALSE, TRUE, <<>>)
FBadCodec == MediaFile(TRUE, TRUE, TRUE, FALSE, <<Pkt(0, "ok", <<1>>)>>)

SampleDescr(f, n) == [file |-> f, note |-> n]

\* The input lists (Config.samples_descr) the runs start from.
Configs ==
    { <<SampleDescr(FKick, 36), SampleDescr(FSnare, 38), SampleDescr(FAlt, 36)>>,
      <<SampleDescr(FKick, 36), SampleDescr(FMissing, 38)>>,
      <<SampleDescr(FUnknown, 36)>>,
      <<SampleDescr(FKick, 36), SampleDescr(FNoTrack, 38)>>,
      <<SampleDescr(FBadCodec, 36), SampleDescr(FKick, 38)>> }

\* The packets the files of the runs that look at the decode loop are made
\* of: packets that decode to one sample and to two, a packet of another
\* track, a packet with a decode error, a packet with another decoder error,
\* and a failing next_packet.
Packets ==
    { Pkt(0, "ok", <<1>>), Pkt(0, "ok", <<2, 3>>), Pkt(1, "ok", <<9>>),
      Pkt(0, "decode_error", <<7>>), Pkt(0, "io_error", <<8>>),
      Pkt(0, "reader_error", <<>>) }

\* Every file of at most MaxPackets of them.
PacketFiles ==
    { MediaFile(TRUE, TRUE, TRUE, TRUE, ps) :
         ps \in UNION { [1 .. n -> Packets] : n \in 0 .. MaxPackets } }

\* The input lists of those runs: a file, listed under two notes.
DecodeConfigs ==
    { <<SampleDescr(f, 36), SampleDescr(f, 38)>> : f \in PacketFiles }

\* The MIDI messages the event source delivers: note-ons of two notes of the
\* library and of a note that is not in it, a note-off, another status byte,
\* a short and a long message.
Messages ==
    { <<144, 36, 100>>, <<144, 38, 1>>, <<144, 99, 100>>, <<144, 36, 0>>,
      <<128, 36, 100>>, <<144, 36>>, <<144, 36, 100, 0>> }
\* The same without the note-on of note 38.
KickMessages == Messages \ {<<144, 38, 1>>}
\* The same without the note-on of note 36.
SnareMessages == Messages \ {<<144, 36, 100>>}

\* ------------------------------------------------------------ state
VARIABLES
    mpc,            \* main thread: position in main()
    samples_descr,  \* descriptors the decode loop has not consumed yet
    sample_data,    \* Vec<SampleData>
    senders,        \* Vec<Sender<f32>>: the channel each sender feeds
    receivers,      \* Vec<Arc<Mutex<Receiver<f32>>>>
    clients,        \* Vec of activated clients (each owns its closure)
    quit,           \* clients whose callback no longer runs after a panic
    port,           \* per client: result of register_port ("pending": the
                    \* closure has not unwrapped it yet)
    queue,          \* per channel: the values in flight in the mpsc channel
    lock,           \* per channel: holder of the Mutex around the receiver
    rslot,          \* per client: slot the callback is at (0: not running)
    out,            \* per client: the output buffer of the port
    periods,        \* callback invocations so far
    connected,      \* the MIDI input connection is open
    ck,             \* senders the check loop has sent to
    idx,            \* round-robin cursor of the midi_input closure
    dpc,            \* midi_input closure: "idle" or "send" (in play_sample)
    dsel,           \* index in sample_data of the sample being played
    dpos,           \* samples of it sent so far
    last,           \* history: what became of the last MIDI message
    panicked,       \* threads that panicked
    dlog,           \* history: note of every dispatch, in order
    pushed,         \* history per channel: every value sent, and by whom
    written         \* history per client: every value written to a slot

vars ==
    <<mpc, samples_descr, sample_data, senders, receivers, clients, quit, port,
      queue, lock, rslot, out, periods, connected, ck, idx, dpc, dsel, dpos,
      last, panicked, dlog, pushed, written>>

mainVars == <<mpc, samples_descr, sample_data, senders, receivers, clients>>
renderVars == <<quit, lock, rslot, out, periods, written>>
dispatchVars == <<idx, dpc, dsel, dpos, last, dlog>>

\* ------------------------------------------------------------ decoding
\* DecodePackets of a loop that breaks at every decoder error.
RECURSIVE DecodePacketsStrict(_, _, _)
DecodePacketsStrict(ps, track_id, data) ==
    IF ps = <<>> THEN data
    ELSE LET p == Head(ps) IN
         IF p.kind = "reader_error" THEN data
         ELSE IF p.track # track_id
              THEN DecodePacketsStrict(Tail(ps), track_id, data)
         ELSE IF p.kind = "ok"
              THEN DecodePacketsStrict(Tail(ps), track_id, data \o p.samples)
         ELSE data

\* The packet loop of main(): packets of other tracks are skipped, a decoded
\* packet's samples are appended, a decode error is skipped, any other
\* decoder error or a failing next_packet ends the loop.
RECURSIVE DecodePackets(_, _, _)
DecodePackets(ps, track_id, data) ==
    IF ps = <<>> THEN data
    ELSE LET p == Head(ps) IN
         IF p.kind = "reader_error" THEN data
         ELSE IF p.track # track_id THEN DecodePackets(Tail(ps), track_id, data)
         ELSE IF p.kind = "ok"
              THEN DecodePackets(Tail(ps), track_id, data \o p.samples)
         ELSE IF p.kind = "decode_error"
              THEN DecodePackets(Tail(ps), track_id, data)
         ELSE data

\* Opens of a loop that only unwraps File::open.
OpensFileOnly(f) == f.open

\* The unwraps before the packet loop.
Opens(f) == f.open /\ f.probe /\ f.has_track /\ f.codec

\* The state main() starts in, but for the input list.
Start ==
    /\ mpc = "decode"
    /\ sample_data = <<>>
    /\ senders = <<>>
    /\ receivers = <<>>
    /\ clients = <<>>
    /\ quit = {}
    /\ port = [c \in Chan |-> "none"]
    /\ queue = [c \in Chan |-> <<>>]
    /\ lock = [c \in Chan |-> <<"free">>]
    /\ rslot = [c \in Chan |-> 0]
    /\ out = [c \in Chan |-> [s \in Slots |-> 0]]
    /\ periods = 0
    /\ connected = FALSE
    /\ ck = 0
    /\ idx = 0
    /\ dpc = "idle"
    /\ dsel = 0
    /\ dpos = 0
    /\ last = "none"
    /\ panicked = {}
    /\ dlog = <<>>
    /\ pushed = [c \in Chan |-> <<>>]
    /\ written = [c \in Chan |-> <<>>]

Init ==
    /\ samples_descr \in Configs
    /\ Start

\* The start of the runs that look at the decode loop.
InitDecode ==
    /\ samples_descr \in DecodeConfigs
    /\ Start

\* The process is alive: main has neither returned nor panicked, and no
\* panic has aborted the process.
Alive == mpc \notin {"done", "panic", "abort"}

\* ------------------------------------------------------------ main thread
\* One iteration of the loop over samples_descr.
DecodeFile ==
    /\ mpc = "decode"
    /\ samples_descr # <<>>
    /\ LET d == Head(samples_descr) IN
        IF Opens(d.file)
        THEN /\ sample_data' =
                  Append(sample_data,
                         [data |-> DecodePackets(d.file.packets,
                                                 d.file.track_id, <<>>),
                          note |-> d.note])
             /\ samples_descr' = Tail(samples_descr)
             /\ UNCHANGED <<mpc, panicked>>
        ELSE /\ mpc' = "panic"
             /\ panicked' = panicked \cup {<<"main">>}
             /\ UNCHANGED <<samples_descr, sample_data>>
    /\ UNCHANGED <<senders, receivers, clients, port, queue, connected, pushed,
                   ck>>
    /\ UNCHANGED renderVars
    /\ UNCHANGED dispatchVars

DecodeDone ==
    /\ mpc = "decode"
    /\ samples_descr = <<>>
    /\ mpc' = "clients"
    /\ UNCHANGED <<samples_descr, sample_data, senders, receivers, clients,
                   port, queue, connected, panicked, pushed, ck>>
    /\ UNCHANGED renderVars
    /\ UNCHANGED dispatchVars

\* Send into a channel that holds two values and drops what does not fit.
SendDropping(c, v, who, n) ==
    /\ queue' = [queue EXCEPT ![c] = IF Len(@) < 2 THEN Append(@, v) ELSE @]
    /\ pushed' = [pushed EXCEPT ![c] = Append(@, [val |-> v, by |-> who, n |-> n])]

\* Send into a channel that hands out the newest value first.
SendFront(c, v, who, n) ==
    /\ queue' = [queue EXCEPT ![c] = <<v>> \o @]
    /\ pushed' = [pushed EXCEPT ![c] = Append(@, [val |-> v, by |-> who, n |-> n])]

\* A value enters the mpsc channel c: Sender::send on a live channel.
Send(c, v, who, n) ==
    /\ queue' = [queue EXCEPT ![c] = Append(@, v)]
    /\ pushed' = [pushed EXCEPT ![c] = Append(@, [val |-> v, by |-> who, n |-> n])]

\* RxAlive of a main() that does not keep rx_arc in receivers.
RxAliveInClosure(c) == c \in Range(clients)

\* The Receiver of channel c is alive while an Arc of it is: the one in the
\* receivers Vec, or the one the closure of client c captured (rx_arc2).
RxAlive(c) == c \in Range(receivers) \/ c \in Range(clients)

\* Loop over 0..NUM_CLIENT, first half of an iteration: Client::new, channel(),
\* register_port (not unwrapped), activate_async (unwrapped).  Nothing looks at
\* the Result of register_port before the closure's first call, which is where
\* the model decides it.
ActivateClient ==
    /\ mpc = "clients"
    /\ Len(senders) < NUM_CLIENT
    /\ LET i == Len(senders) IN
       \E client_ok \in BOOLEAN :
          IF client_ok
          THEN /\ port' = [port EXCEPT ![i] = "pending"]
               /\ clients' = Append(clients, i)
               /\ mpc' = "push_sender"
               /\ UNCHANGED panicked
          ELSE /\ mpc' = "panic"
               /\ panicked' = panicked \cup {<<"main">>}
               /\ UNCHANGED <<port, clients>>
    /\ UNCHANGED <<samples_descr, sample_data, senders, receivers, queue,
                   connected, pushed, ck>>
    /\ UNCHANGED renderVars
    /\ UNCHANGED dispatchVars

\* Second half of the iteration: senders.push, receivers.push, first send.
PushSender ==
    /\ mpc = "push_sender"
    /\ LET i == Len(senders) IN
       /\ senders' = Append(senders, i)
       /\ receivers' = Append(receivers, i)
       /\ Send(i, Prime, "main", 0)
       /\ mpc' = IF i + 1 = NUM_CLIENT THEN "check" ELSE "clients"
    /\ UNCHANGED <<samples_descr, sample_data, clients, port, connected,
                   panicked, ck>>
    /\ UNCHANGED renderVars
    /\ UNCHANGED dispatchVars

\* "Check senders": one iteration of the loop over senders.
CheckSender ==
    /\ mpc = "check"
    /\ ck < Len(senders)
    /\ IF RxAlive(senders[ck + 1])
       THEN /\ Send(senders[ck + 1], Prime, "main", 0)
            /\ mpc' = IF ck + 1 = Len(senders) THEN "connect" ELSE "check"
            /\ UNCHANGED panicked
       ELSE /\ mpc' = "panic"
            /\ panicked' = panicked \cup {<<"main">>}
            /\ UNCHANGED <<queue, pushed>>
    /\ ck' = ck + 1
    /\ UNCHANGED <<samples_descr, sample_data, senders, receivers, clients,
                   port, connected>>
    /\ UNCHANGED renderVars
    /\ UNCHANGED dispatchVars

\* ReadyToConnect of a main() that connects before the sender check.
ReadyToConnectEarly == mpc \in {"check", "connect"}

\* main() reaches MidiInput::new after the client loop and the sender check.
ReadyToConnect == mpc = "connect"

\* MidiInput::new, ports().get(0), connect: each unwrapped.
ConnectMidi ==
    /\ ReadyToConnect
    /\ \E midi_ok \in BOOLEAN :
          IF midi_ok
          THEN /\ connected' = TRUE
               /\ mpc' = "wait_enter"
               /\ UNCHANGED panicked
          ELSE /\ mpc' = "panic"
               /\ panicked' = panicked \cup {<<"main">>}
               /\ UNCHANGED connected
    /\ UNCHANGED <<samples_descr, sample_data, senders, receivers, clients,
                   port, queue, pushed, ck>>
    /\ UNCHANGED renderVars
    /\ UNCHANGED dispatchVars

\* stdin().read_line returns.
PressEnter ==
    /\ mpc = "wait_enter"
    /\ mpc' = "deactivate"
    /\ UNCHANGED <<samples_descr, sample_data, senders, receivers, clients,
                   port, queue, connected, panicked, pushed, ck>>
    /\ UNCHANGED renderVars
    /\ UNCHANGED dispatchVars

\* One iteration of the loop over clients: deactivate waits for the client's
\* callback to return, then the client and its closure are dropped.
Deactivate ==
    /\ mpc = "deactivate"
    /\ clients # <<>>
    /\ rslot[Head(clients)] = 0
    /\ \E deactivate_ok \in BOOLEAN :
          IF deactivate_ok
          THEN /\ clients' = Tail(clients)
               /\ UNCHANGED <<mpc, panicked>>
          ELSE /\ mpc' = "panic"
               /\ panicked' = panicked \cup {<<"main">>}
               /\ UNCHANGED clients
    /\ UNCHANGED <<samples_descr, sample_data, senders, receivers, port, queue,
                   connected, pushed, ck>>
    /\ UNCHANGED renderVars
    /\ UNCHANGED dispatchVars

\* End of main: _conn_in is dropped (the connection closes once the MIDI
\* callback has returned), then receivers.
Exit ==
    /\ mpc = "deactivate"
    /\ clients = <<>>
    /\ dpc = "idle"
    /\ connected' = FALSE
    /\ receivers' = <<>>
    /\ mpc' = "done"
    /\ UNCHANGED <<samples_descr, sample_data, senders, clients, port, queue,
                   panicked, pushed, ck>>
    /\ UNCHANGED renderVars
    /\ UNCHANGED dispatchVars

\* ------------------------------------------------------------ process callback
Cb(c) == <<"cb", c>>

\* rx_arc2 of a loop that makes one channel for all clients.
rx_arc2Shared(c) == 0

\* The Receiver the closure of client c captured.
rx_arc2(c) == c

\* The Results register_port can have returned for client c.
PortResults(c) == IF port[c] = "pending" THEN {"ok", "err"} ELSE {port[c]}

\* JACK invokes the closure of an activated client: port.as_mut().unwrap().
\* A panic in the callback either aborts the process or is caught by the
\* binding, which then stops calling the client.
RenderEnter(c) ==
    /\ Alive
    /\ c \in Range(clients)
    /\ c \notin quit
    /\ rslot[c] = 0
    /\ \E result \in PortResults(c) :
          /\ port' = [port EXCEPT ![c] = result]
          /\ IF result = "ok"
             THEN /\ rslot' = [rslot EXCEPT ![c] = 1]
                  /\ UNCHANGED <<mpc, quit, panicked>>
             ELSE /\ panicked' = panicked \cup {Cb(c)}
                  /\ \E aborts \in BOOLEAN :
                        IF aborts
                        THEN mpc' = "abort" /\ UNCHANGED quit
                        ELSE quit' = quit \cup {c} /\ UNCHANGED mpc
                  /\ UNCHANGED rslot
    /\ UNCHANGED <<samples_descr, sample_data, senders, receivers, clients,
                   queue, connected, pushed, ck, lock, out, written>>
    /\ UNCHANGED dispatchVars

\* The call, in a run of at most max_periods calls.
RenderBegin(c, max_periods) ==
    /\ periods < max_periods
    /\ periods' = periods + 1
    /\ RenderEnter(c)

\* The call, in a run that does not limit the calls.
RenderLive(c) ==
    /\ UNCHANGED periods
    /\ RenderEnter(c)

\* rx_arc2.lock(): the callback waits until the Mutex is free.
RenderLock(c) ==
    /\ Alive
    /\ rslot[c] \in Slots
    /\ lock[rx_arc2(c)] = <<"free">>
    /\ lock' = [lock EXCEPT ![rx_arc2(c)] = Cb(c)]
    /\ UNCHANGED <<quit, rslot, out, periods, written>>
    /\ UNCHANGED <<queue, port, connected, panicked, pushed, ck>>
    /\ UNCHANGED mainVars
    /\ UNCHANGED dispatchVars

\* SlotAfter of a callback that writes silence when the queue is empty.
SlotAfterSilence(c) ==
    IF queue[rx_arc2(c)] # <<>> THEN Head(queue[rx_arc2(c)])
    ELSE 0

\* SlotAfter of a callback that drops what it receives.
SlotAfterUntouched(c) == out[c][rslot[c]]

\* What the slot the callback of client c is at holds after the iteration:
\* the value try_recv returned, or what it held before.
SlotAfter(c) ==
    IF queue[rx_arc2(c)] # <<>> THEN Head(queue[rx_arc2(c)])
    ELSE out[c][rslot[c]]

\* try_recv under the lock, the write to the slot, the guard's drop, and the
\* step to the next slot (or the return of Control::Continue).
RenderRecv(c) ==
    /\ Alive
    /\ rslot[c] \in Slots
    /\ lock[rx_arc2(c)] = Cb(c)
    /\ out' = [out EXCEPT ![c][rslot[c]] = SlotAfter(c)]
    /\ LET q == rx_arc2(c) IN
       IF queue[q] # <<>>
       THEN /\ queue' = [queue EXCEPT ![q] = Tail(@)]
            /\ written' = [written EXCEPT ![c] = Append(@, SlotAfter(c))]
       ELSE UNCHANGED <<queue, written>>
    /\ lock' = [lock EXCEPT ![rx_arc2(c)] = <<"free">>]
    /\ rslot' = [rslot EXCEPT ![c] = IF @ = PeriodLen THEN 0 ELSE @ + 1]
    /\ UNCHANGED <<quit, periods>>
    /\ UNCHANGED <<port, connected, panicked, pushed, ck>>
    /\ UNCHANGED mainVars
    /\ UNCHANGED dispatchVars

\* ------------------------------------------------------------ MIDI callback
\* IsNoteOn without the test of the velocity.
IsNoteOnAnyVelocity(message) ==
    /\ Len(message) = 3
    /\ message[1] = NOTE_ON

\* The filter of the midi_input closure.
IsNoteOn(message) ==
    /\ Len(message) = 3
    /\ message[1] = NOTE_ON
    /\ message[3] # 0

\* Find falling back to the first entry.
FindOrFirst(note) ==
    LET hits == {k \in 1 .. Len(sample_data) : sample_data[k].note = note} IN
    IF hits = {} THEN 1 ELSE CHOOSE k \in hits : \A h \in hits : k <= h

\* Find returning the last match.
FindLast(note) ==
    LET hits == {k \in 1 .. Len(sample_data) : sample_data[k].note = note} IN
    IF hits = {} THEN 0 ELSE CHOOSE k \in hits : \A h \in hits : k >= h

\* sample_data.iter().find(|s| s.note == note): index of the first match, 0
\* if there is none.
Find(note) ==
    LET hits == {k \in 1 .. Len(sample_data) : sample_data[k].note = note} IN
    IF hits = {} THEN 0 ELSE CHOOSE k \in hits : \A h \in hits : k <= h

\* The closure is called with a message; a note-on whose note is found
\* enters play_sample.
MidiMessage(message, max_dispatch) ==
    /\ Alive
    /\ connected
    /\ dpc = "idle"
    /\ <<"midi">> \notin panicked
    /\ IF IsNoteOn(message) /\ Find(message[2]) # 0
       THEN /\ Len(dlog) < max_dispatch
            /\ last' = "played"
            /\ dsel' = Find(message[2])
            /\ dpos' = 0
            /\ dlog' = Append(dlog, message[2])
            /\ IF idx < Len(senders)
               THEN dpc' = "send" /\ UNCHANGED panicked
               ELSE dpc' = "idle" /\ panicked' = panicked \cup {<<"midi">>}
       ELSE /\ last' = IF IsNoteOn(message) THEN "absent" ELSE "filtered"
            /\ UNCHANGED <<dsel, dpos, dlog, dpc, panicked>>
    /\ UNCHANGED <<idx, port, queue, connected, pushed, ck>>
    /\ UNCHANGED mainVars
    /\ UNCHANGED renderVars

\* NextSample of a loop that does not move on.
NextSampleFirst == sample_data[dsel].data[1]

\* The sample the loop of play_sample is at.
NextSample == sample_data[dsel].data[dpos + 1]

\* PlaySend of a play_sample that takes each sample out of the buffer.
PlaySendDraining ==
    /\ Alive
    /\ dpc = "send"
    /\ dpos < Len(sample_data[dsel].data)
    /\ LET c == senders[idx + 1] IN
       IF RxAlive(c)
       THEN /\ Send(c, Head(sample_data[dsel].data), "midi", Len(dlog))
            /\ sample_data' = [sample_data EXCEPT ![dsel].data = Tail(@)]
            /\ UNCHANGED <<dpc, panicked>>
       ELSE /\ dpc' = "idle"
            /\ panicked' = panicked \cup {<<"midi">>}
            /\ UNCHANGED <<queue, pushed, sample_data>>
    /\ UNCHANGED <<idx, dsel, dpos, last, dlog>>
    /\ UNCHANGED <<port, connected, ck>>
    /\ UNCHANGED <<mpc, samples_descr, senders, receivers, clients>>
    /\ UNCHANGED renderVars

\* play_sample: one iteration of the loop over the sample.
PlaySend ==
    /\ Alive
    /\ dpc = "send"
    /\ dpos < Len(sample_data[dsel].data)
    /\ LET c == senders[idx + 1] IN
       IF RxAlive(c)
       THEN /\ Send(c, NextSample, "midi", Len(dlog))
            /\ dpos' = dpos + 1
            /\ UNCHANGED <<dpc, panicked>>
       ELSE /\ dpc' = "idle"
            /\ panicked' = panicked \cup {<<"midi">>}
            /\ UNCHANGED <<queue, pushed, dpos>>
    /\ UNCHANGED <<idx, dsel, last, dlog>>
    /\ UNCHANGED <<port, connected, ck>>
    /\ UNCHANGED mainVars
    /\ UNCHANGED renderVars

\* NextIdx without the modulo.
NextIdxNoWrap == idx + 1

\* NextIdx without the increment.
NextIdxStuck == idx

\* idx += 1; idx %= senders.len()
NextIdx == (idx + 1) % Len(senders)

\* PlayReturn of a closure that returns while play_sample is still sending.
PlayReturnEarly ==
    /\ Alive
    /\ dpc = "send"
    /\ idx' = NextIdx
    /\ dpc' = "idle"
    /\ UNCHANGED <<dsel, dpos, last, dlog>>
    /\ UNCHANGED <<port, queue, connected, panicked, pushed, ck>>
    /\ UNCHANGED mainVars
    /\ UNCHANGED renderVars

\* play_sample returns, and the cursor moves on.
PlayReturn ==
    /\ Alive
    /\ dpc = "send"
    /\ dpos = Len(sample_data[dsel].data)
    /\ idx' = NextIdx
    /\ dpc' = "idle"
    /\ UNCHANGED <<dsel, dpos, last, dlog>>
    /\ UNCHANGED <<port, queue, connected, panicked, pushed, ck>>
    /\ UNCHANGED mainVars
    /\ UNCHANGED renderVars

\* The steps of the main thread.
Main ==
    \/ DecodeFile
    \/ DecodeDone
    \/ ActivateClient
    \/ PushSender
    \/ CheckSender
    \/ ConnectMidi
    \/ PressEnter
    \/ Deactivate
    \/ Exit

Next ==
    \/ Main
    \/ \E c \in Chan : RenderBegin(c, MaxPeriods)
    \/ \E c \in Chan : RenderLock(c)
    \/ \E c \in Chan : RenderRecv(c)
    \/ \E message \in KickMessages : MidiMessage(message, MaxDispatch)
    \/ PlaySend
    \/ PlayReturn

Spec == Init /\ [][Next]_vars

\* The same program with fewer note-ons, of the other note, and more callback
\* invocations.
NextRender ==
    \/ Main
    \/ \E c \in Chan : RenderBegin(c, MaxPeriodsR)
    \/ \E c \in Chan : RenderLock(c)
    \/ \E c \in Chan : RenderRecv(c)
    \/ \E message \in SnareMessages : MidiMessage(message, MaxDispatchR)
    \/ PlaySend
    \/ PlayReturn

SpecRender == Init /\ [][NextRender]_vars

\* The same program in the runs that follow client 0, the client of the
\* channel the first dispatch goes to: JACK calls its callback again and again
\* as long as the client is active, and the callback's thread runs.  The
\* callbacks of the other clients, which touch nothing of client 0, are left
\* out of these runs.
NextLive ==
    \/ Main
    \/ RenderLive(0)
    \/ RenderLock(0)
    \/ RenderRecv(0)
    \/ \E message \in KickMessages : MidiMessage(message, MaxDispatchL)
    \/ PlaySend
    \/ PlayReturn

SpecLive ==
    /\ Init
    /\ [][NextLive]_vars
    /\ WF_vars(RenderLive(0))
    /\ WF_vars(RenderLock(0))
    /\ WF_vars(RenderRecv(0))

\* The decode loop alone, on the files made of Packets.
NextDecode ==
    \/ DecodeFile
    \/ DecodeDone

SpecDecode == InitDecode /\ [][NextDecode]_vars

\* ------------------------------------------------------------ properties
\* The values the j-th dispatch (counted from 1) has sent into channel c.
DispatchedTo(c, j) ==
    LET ByDispatch(e) == e.by = "midi" /\ e.n = j
        es == SelectSeq(pushed[c], ByDispatch)
    IN  [k \in 1 .. Len(es) |-> es[k].val]

\* The note has an entry in the library.
InLibrary(note) == \E k \in 1 .. Len(sample_data) : sample_data[k].note = note

\* The buffer of the first entry of the library with the note.
BufferOf(note) ==
    LET k == CHOOSE h \in 1 .. Len(sample_data) :
                 /\ sample_data[h].note = note
                 /\ \A g \in 1 .. (h - 1) : sample_data[g].note # note
    IN  sample_data[k].data

\* The message is a 3-byte message with status 144 and a velocity other than 0.
AcceptedNoteOn(m) == Len(m) = 3 /\ m[1] = 144 /\ m[3] # 0

\* C1: every value a dispatch sends goes to channel (j mod N), j the number of
\* dispatches before it, and a finished dispatch has its whole buffer there.
RoundRobinPlacement ==
    /\ \A c \in Chan : \A k \in 1 .. Len(pushed[c]) :
          pushed[c][k].by = "midi" => c = (pushed[c][k].n - 1) % NUM_CLIENT
    /\ \A j \in 1 .. Len(dlog) :
          (j < Len(dlog) \/ dpc = "idle")
             => DispatchedTo((j - 1) % NUM_CLIENT, j) = BufferOf(dlog[j])

\* C1 witness: four dispatches are over, and the fourth went to channel 0.
RoundRobinWraps ==
    /\ Len(dlog) = NUM_CLIENT + 1
    /\ dpc = "idle"
    /\ DispatchedTo(0, NUM_CLIENT + 1) = <<1, 2>>
    /\ DispatchedTo(1, 2) = <<1, 2>>
    /\ DispatchedTo(2, 3) = <<1, 2>>

\* C2: a note-on whose note is not in the library changes no queue, does not
\* move the cursor, starts no dispatch and panics no thread.
AbsentTriggerNoEffect ==
    [][\A m \in Messages :
          (MidiMessage(m, MaxDispatch) /\ AcceptedNoteOn(m) /\ ~InLibrary(m[2]))
             => /\ queue' = queue
                /\ pushed' = pushed
                /\ idx' = idx
                /\ dpc' = "idle"
                /\ panicked' = panicked]_vars

\* C2 witness: a note-on of a note that is not in the library was handled
\* after a dispatch had put values into a queue.
AbsentTriggerHandled ==
    /\ last = "absent"
    /\ idx = 1
    /\ Len(queue[0]) >= 3

\* C3: a message starts a dispatch only if it is an accepted note-on, and
\* then of the entry with the note of byte 1; any other message changes no
\* queue, does not move the cursor and panics no thread.
EventFilter ==
    [][\A m \in Messages :
          MidiMessage(m, MaxDispatch)
             => /\ dpc' = "send"
                   => /\ AcceptedNoteOn(m)
                      /\ sample_data[dsel'].note = m[2]
                      /\ dlog' = Append(dlog, m[2])
                /\ ~AcceptedNoteOn(m)
                   => /\ queue' = queue
                      /\ pushed' = pushed
                      /\ idx' = idx
                      /\ dpc' = "idle"
                      /\ dlog' = dlog
                      /\ panicked' = panicked]_vars

\* C3 witness: a message the filter rejects was handled after a dispatch.
FilteredMessageHandled ==
    /\ last = "filtered"
    /\ idx = 1
    /\ Len(queue[0]) >= 3

\* C4: while a dispatch is sending, what it has sent to the channel at the
\* cursor is the prefix of its buffer of that length, and it has sent nothing
\* to another channel; the cursor moves only when the whole buffer is there,
\* and then to (cursor + 1) mod N.
DispatchStreamsBuffer ==
    [][/\ dpc = "send"
          => /\ DispatchedTo(idx, Len(dlog))
                  = SubSeq(BufferOf(dlog[Len(dlog)]), 1, dpos)
             /\ \A c \in Chan \ {idx} : DispatchedTo(c, Len(dlog)) = <<>>
       /\ idx' # idx
          => /\ dpc = "send"
             /\ DispatchedTo(idx, Len(dlog)) = BufferOf(dlog[Len(dlog)])
             /\ pushed' = pushed
             /\ idx' = (idx + 1) % NUM_CLIENT]_vars

\* C4 witness: the first dispatch has sent the two samples of its buffer to
\* channel 0 in order, and the cursor is at 1.
BufferStreamed ==
    /\ Len(dlog) = 1
    /\ dpc = "idle"
    /\ idx = 1
    /\ DispatchedTo(0, 1) = <<1, 2>>
    /\ Len(pushed[0]) = 4

\* C10: when a MIDI message has been handled, the decode loop has consumed
\* every descriptor, every entry has its decoded buffer, and every client has
\* been activated and has its sender and its two first values.
StartupOrdering ==
    (last # "none" \/ dpc # "idle" \/ dlog # <<>>)
       => /\ samples_descr = <<>>
          /\ Len(sample_data) = 3
          /\ \A k \in 1 .. Len(sample_data) : sample_data[k].data # <<>>
          /\ \A c \in Chan : port[c] # "none"
          /\ Len(senders) = NUM_CLIENT
          /\ ck = NUM_CLIENT

\* C10 witness: a dispatch is sending while the main thread waits for enter.
DispatchAfterStartup ==
    /\ mpc = "wait_enter"
    /\ dpc = "send"
    /\ dpos = 1

\* C6: a slot of the callback of client c ends with exactly one value less in
\* its queue and that value in the slot if the queue held one, with the slot
\* and the queue as they were if the queue was empty; nothing else changes
\* an output buffer or shortens a queue, and the slots are taken in order.
SlotRule ==
    [][\A c \in Chan :
          /\ (rslot[c] \in Slots /\ rslot'[c] # rslot[c])
                => /\ rslot'[c] = (rslot[c] + 1) % (PeriodLen + 1)
                   /\ IF queue[c] # <<>>
                      THEN /\ queue'[c] = Tail(queue[c])
                           /\ out'[c] = [out[c] EXCEPT ![rslot[c]] = Head(queue[c])]
                      ELSE /\ queue'[c] = queue[c]
                           /\ out'[c] = out[c]
          /\ (out'[c] # out[c] \/ Len(queue'[c]) < Len(queue[c]))
                => (rslot[c] \in Slots /\ rslot'[c] # rslot[c])]_vars

\* C6 witness: client c is in its second period, at slot 2; the only value
\* ever sent to it went to slot 1 in the first period, and slot 1 still
\* holds it after the second period found the queue empty there.
StaleSlotKept ==
    \E c \in Chan :
       /\ periods = 2
       /\ \A d \in Chan \ {c} : port[d] \in {"none", "pending"}
       /\ rslot[c] = 2
       /\ Len(pushed[c]) = 1
       /\ written[c] = <<Prime>>
       /\ out[c][1] = Prime

\* C7: no callback panics.
CallbackNeverPanics == \A c \in Chan : Cb(c) \notin panicked

\* C8: the Mutex of channel c is free or held by the callback of client c,
\* and free whenever that callback is not running.
LockUncontended ==
    \A c \in Chan :
       /\ lock[c] \in {<<"free">>, Cb(c)}
       /\ rslot[c] = 0 => lock[c] = <<"free">>

\* C8 witness: two callbacks hold their locks while a dispatch is sending
\* and the main thread is in the deactivate loop.
ConcurrentCallbacks ==
    /\ lock[1] = Cb(1)
    /\ lock[2] = Cb(2)
    /\ dpc = "send"
    /\ mpc = "deactivate"

\* C9 as stated: every value sent into a queue is sent by the dispatcher.
AllSentByDispatcher ==
    \A c \in Chan : \A k \in 1 .. Len(pushed[c]) : pushed[c][k].by = "midi"

\* C9 amended: a value enters the queue of channel c either from the main
\* thread, which sends 0.3201 at most twice before the MIDI connection is
\* open, or from the dispatcher, which sends the next sample of the buffer it
\* plays; a value leaves it only in a slot of the callback of client c.
SingleProducerSingleConsumer ==
    [][\A c \in Chan :
          /\ Len(queue'[c]) < Len(queue[c])
                => /\ rslot[c] \in Slots
                   /\ rslot'[c] # rslot[c]
                   /\ lock[c] = Cb(c)
                   /\ queue'[c] = Tail(queue[c])
                   /\ written'[c] = Append(written[c], Head(queue[c]))
          /\ pushed'[c] # pushed[c]
                => LET e == pushed'[c][Len(pushed'[c])]
                       ByMain(x) == x.by = "main"
                   IN  /\ pushed'[c] = Append(pushed[c], e)
                       /\ queue'[c] = Append(queue[c], e.val)
                       /\ \/ /\ e.by = "midi"
                             /\ connected
                             /\ dpc = "send"
                             /\ c = idx
                             /\ e.val = BufferOf(dlog[Len(dlog)])[dpos + 1]
                          \/ /\ e.by = "main"
                             /\ ~connected
                             /\ e.val = Prime
                             /\ Len(SelectSeq(pushed[c], ByMain)) < 2]_vars

\* C9 witness: the callback of client 0 has written the two values of the
\* main thread and the sample of a dispatch.
BothProducersConsumed == written[0] = <<Prime, Prime, 3>>

\* JACK still calls the callback of client c.
Invoked(c) == Alive /\ c \in Range(clients) /\ c \notin quit

\* C5: every sample a dispatch has sent into channel 0 is in the end written
\* to a slot by the callback of client 0, whatever is handled later, unless
\* JACK stops calling it (the client is deactivated or has quit, or the
\* process has ended).
PlaysToCompletion ==
    \A k \in 1 .. (2 + 2 * MaxDispatchL) :
       (Len(pushed[0]) >= k /\ pushed[0][k].by = "midi")
          ~> \/ (Len(written[0]) >= k /\ written[0][k] = pushed[0][k].val)
             \/ ~Invoked(0)

\* C5 witness: the first dispatch's buffer has been written to the end, a
\* second note-on of its note has been played and a message the filter
\* rejects (a note-off is one) was the last handled.
PlayedThroughLaterEvents ==
    /\ written[0] = <<Prime, Prime, 1, 2>>
    /\ queue[0] = <<>>
    /\ Len(dlog) = 2
    /\ last = "filtered"
    /\ DispatchedTo(1, 2) = <<1, 2>>
    /\ Invoked(0)

\* One of the unwraps before the packet loop fails on the file.
Undecodable(f) == ~f.open \/ ~f.probe \/ ~f.has_track \/ ~f.codec

\* The input list still holds an entry whose file cannot be opened or decoded.
HasBadEntry ==
    \E k \in 1 .. Len(samples_descr) : Undecodable(samples_descr[k].file)

\* C11: while the input list holds an entry that cannot be opened or decoded,
\* the main thread is in the decode loop or has panicked there, no client is
\* activated, no channel exists, the MIDI connection is not open and no
\* message is handled; the entry is never skipped, and the main thread's step
\* at it is the panic, which leaves the entries decoded so far unused.
FailFastBuild ==
    /\ [](HasBadEntry
            => /\ mpc \in {"decode", "panic"}
               /\ clients = <<>>
               /\ senders = <<>>
               /\ \A c \in Chan : port[c] = "none" /\ pushed[c] = <<>>
               /\ ~connected
               /\ last = "none" /\ dlog = <<>> /\ dpc = "idle")
    /\ [][HasBadEntry
            => /\ HasBadEntry'
               /\ (Undecodable(Head(samples_descr).file) /\ mpc = "decode")
                     => /\ mpc' = "panic"
                        /\ <<"main">> \in panicked'
                        /\ sample_data' = sample_data]_vars

\* C11 witness: the second entry could not be opened after the first had been
\* decoded, and the main thread has panicked.
PartialLibraryAbandoned ==
    /\ mpc = "panic"
    /\ Len(sample_data) = 1
    /\ Len(samples_descr) = 1
    /\ ~Head(samples_descr).file.open

\* Packet k of the file ends the decoding: the reader fails, or the decoder
\* fails on a packet of the selected track with an error that is not a decode
\* error.
TerminalAt(ps, track_id, k) ==
    \/ ps[k].kind = "reader_error"
    \/ ps[k].track = track_id /\ ps[k].kind \notin {"ok", "decode_error"}

\* The packets before the first terminal one (all, if there is none).
BeforeTerminal(ps, track_id) ==
    LET ends == {k \in 1 .. Len(ps) : TerminalAt(ps, track_id, k)} IN
    IF ends = {} THEN ps
    ELSE SubSeq(ps, 1, (CHOOSE k \in ends : \A e \in ends : k <= e) - 1)

\* The samples of a sequence of packets, one after the other.
RECURSIVE Concatenation(_)
Concatenation(ps) ==
    IF ps = <<>> THEN <<>> ELSE Head(ps).samples \o Concatenation(Tail(ps))

\* The concatenation of the successfully decoded packets of the selected track
\* before the first terminal error.
DecodedUnits(f) ==
    LET Decoded(p) == p.track = f.track_id /\ p.kind = "ok"
    IN  Concatenation(SelectSeq(BeforeTerminal(f.packets, f.track_id), Decoded))

\* C12: a step of the decode loop at a file that opens appends to the library
\* the entry with the file's note and the concatenation, in order, of the
\* samples of its successfully decoded packets of the selected track up to the
\* first terminal error; packets with a decode error are skipped, and the
\* terminal error does not fail the step.
DecodeResult ==
    [][(mpc = "decode" /\ samples_descr # <<>>
          /\ ~Undecodable(Head(samples_descr).file)
          /\ <<mpc, samples_descr, sample_data>>'
                # <<mpc, samples_descr, sample_data>>)
         => /\ sample_data' =
                 Append(sample_data,
                        [data |-> DecodedUnits(Head(samples_descr).file),
                         note |-> Head(samples_descr).note])
            /\ samples_descr' = Tail(samples_descr)
            /\ mpc' = "decode"
            /\ panicked' = panicked]_vars

\* C12 witness: a file with a decode error between two decoded packets and a
\* terminal error before its last packet has been decoded once, to the samples
\* of the two packets, and is about to be decoded again.
CorruptMiddleDecoded ==
    /\ mpc = "decode"
    /\ Len(samples_descr) = 1
    /\ Head(samples_descr).file.packets =
          <<Pkt(0, "ok", <<1>>), Pkt(0, "decode_error", <<7>>),
            Pkt(0, "ok", <<2, 3>>), Pkt(0, "io_error", <<8>>),
            Pkt(0, "ok", <<1>>)>>
    /\ sample_data = <<[data |-> <<1, 2, 3>>, note |-> 36]>>

\* Entry k is the first entry of the library with the note.
FirstWith(note, k) ==
    /\ k \in 1 .. Len(sample_data)
    /\ sample_data[k].note = note
    /\ \A g \in 1 .. (k - 1) : sample_data[g].note # note

\* C13: the decode loop keeps an entry for every descriptor, also for a note
\* the library already has; an accepted note-on plays the first entry with
\* its note, and plays nothing if there is none; what a dispatch has sent is
\* at all times a prefix of the buffer of the first entry with its note.
FirstMatchLookup ==
    /\ [][/\ (mpc = "decode" /\ sample_data' # sample_data)
                => /\ Len(sample_data') = Len(sample_data) + 1
                   /\ SubSeq(sample_data', 1, Len(sample_data)) = sample_data
                   /\ sample_data'[Len(sample_data')].note
                         = Head(samples_descr).note
          /\ \A m \in Messages :
                (MidiMessage(m, MaxDispatch) /\ AcceptedNoteOn(m))
                   => IF \E k \in 1 .. Len(sample_data) : FirstWith(m[2], k)
                      THEN dpc' = "send" /\ FirstWith(m[2], dsel')
                      ELSE dpc' = "idle" /\ dlog' = dlog /\ pushed' = pushed]_vars
    /\ [](\A j \in 1 .. Len(dlog) : \A k \in 1 .. Len(sample_data) :
             FirstWith(dlog[j], k)
                => LET sent == DispatchedTo((j - 1) % NUM_CLIENT, j)
                   IN  /\ Len(sent) <= Len(sample_data[k].data)
                       /\ sent = SubSeq(sample_data[k].data, 1, Len(sent)))

\* C13 witness: the library has two entries with note 36 and different
\* buffers, and the second note-on of 36 has again sent the buffer of the
\* first of them.
ShadowedEntryNeverPlayed ==
    /\ Len(sample_data) = 3
    /\ sample_data[1] = [data |-> <<1, 2>>, note |-> 36]
    /\ sample_data[3] = [data |-> <<4>>, note |-> 36]
    /\ dlog = <<36, 36>>
    /\ dpc = "idle"
    /\ DispatchedTo(0, 1) = <<1, 2>>
    /\ DispatchedTo(1, 2) = <<1, 2>>

\* The values in the queue of channel c, each with the dispatch that sent it
\* (0: the main thread): the last entries of what was sent into the channel.
InQueue(c) ==
    SubSeq(pushed[c], Len(pushed[c]) - Len(queue[c]) + 1, Len(pushed[c]))

\* Dispatch N+1 has sent its buffer into channel 0 while samples of dispatch 1
\* were still in the queue.
Collided ==
    /\ Len(dlog) = NUM_CLIENT + 1
    /\ dpc = "idle"
    /\ Len(queue[0]) <= Len(pushed[0])
    /\ \E i \in 1 .. Len(queue[0]) : InQueue(0)[i].n = 1

\* C14 as stated: after such a collision the samples of the new buffer are
\* interleaved with the remainder of the old one in the queue, that is, some
\* sample of dispatch N+1 is ahead of a sample of dispatch 1.
CollisionInterleaves ==
    Collided
       => \E i, j \in 1 .. Len(queue[0]) :
             /\ i < j
             /\ InQueue(0)[i].n = NUM_CLIENT + 1
             /\ InQueue(0)[j].n = 1

\* C14 amended: a note-on is dispatched to the channel at the cursor whatever
\* that channel's queue holds, a send only appends to the queue (nothing the
\* queue holds is removed or overtaken), and so the queue holds the values of
\* an earlier dispatch ahead of all values of a later one: after a collision,
\* the remainder of the old buffer followed by the whole new buffer, in order.
CollisionQueuesBehind ==
    /\ [][/\ \A c \in Chan :
                pushed'[c] # pushed[c]
                   => queue'[c]
                        = Append(queue[c], pushed'[c][Len(pushed'[c])].val)
          /\ \A m \in Messages :
                (MidiMessage(m, MaxDispatchL) /\ dpc' = "send")
                   => queue' = queue /\ idx' = idx]_vars
    /\ [](\A c \in Chan :
             /\ Len(queue[c]) <= Len(pushed[c])
             /\ queue[c] = [k \in 1 .. Len(queue[c]) |-> InQueue(c)[k].val]
             /\ \A i, j \in 1 .. Len(queue[c]) :
                   i < j => InQueue(c)[i].n <= InQueue(c)[j].n)
    /\ [](Collided
            => LET old == <<Prime, Prime>> \o BufferOf(dlog[1])
               IN  \E r \in 1 .. Len(old) :
                      queue[0] = SubSeq(old, Len(old) - r + 1, Len(old))
                                    \o BufferOf(dlog[NUM_CLIENT + 1]))

\* C14 witness: the callback of client 0 has written the first sample of
\* dispatch 1, the second is still in the queue, and dispatch 4 has put its
\* buffer behind it.
OldRemainderThenNew ==
    /\ Collided
    /\ written[0] = <<Prime, Prime, 1>>
    /\ queue[0] = <<2, 1, 2>>
    /\ idx = 1

\* C15: the closure is in at most one dispatch, the one dlog ends with, and
\* only that dispatch sends; a message is handled only when the closure is
\* idle and every dispatch so far has its whole buffer in its channel, so
\* the values of two dispatches are never mixed in a channel.
DispatchesSerialized ==
    /\ [][/\ \A c \in Chan :
                (pushed'[c] # pushed[c] /\ connected)
                   => /\ dpc = "send"
                      /\ pushed'[c][Len(pushed'[c])].by = "midi"
                      /\ pushed'[c][Len(pushed'[c])].n = Len(dlog)
          /\ (dlog' # dlog \/ last' # last)
                => /\ dpc = "idle"
                   /\ \A j \in 1 .. Len(dlog) :
                         DispatchedTo((j - 1) % NUM_CLIENT, j)
                            = BufferOf(dlog[j])]_vars
    /\ [](\A c \in Chan : \A i, j \in 1 .. Len(pushed[c]) :
             (i < j /\ pushed[c][i].by = "midi")
                => /\ pushed[c][j].by = "midi"
                   /\ pushed[c][i].n <= pushed[c][j].n)

\* C15 witness: the second dispatch is sending its second sample, after the
\* first has sent its whole buffer; the callback of client 0 has run.
SecondDispatchAfterFirst ==
    /\ Len(dlog) = 2
    /\ dpc = "send"
    /\ dpos = 1
    /\ DispatchedTo(0, 1) = <<1, 2>>
    /\ DispatchedTo(1, 2) = <<1>>
    /\ written[0] = <<Prime, Prime>>

\* C16: the cursor is in 0 .. N-1 and, once messages can arrive, below the
\* number of senders, so that senders.get(idx) finds one; it changes only in
\* the step that ends a dispatch whose whole buffer has been sent, by +1
\* modulo N, and that step is a step of the MIDI callback alone.
CursorInvariant ==
    /\ [](/\ idx \in 0 .. (NUM_CLIENT - 1)
          /\ connected => idx < Len(senders)
          /\ dpc = "send" => idx + 1 \in DOMAIN senders)
    /\ [][idx' # idx
            => /\ dpc = "send" /\ dpc' = "idle"
               /\ dpos = Len(sample_data[dsel].data)
               /\ DispatchedTo(idx, Len(dlog)) = sample_data[dsel].data
               /\ idx' = (idx + 1) % NUM_CLIENT
               /\ <<"midi">> \notin panicked'
               /\ UNCHANGED mainVars
               /\ UNCHANGED renderVars]_vars
    /\ [][(dpc = "send" /\ dpc' = "idle" /\ <<"midi">> \notin panicked')
            => idx' = (idx + 1) % NUM_CLIENT]_vars

\* C16 witness: the third dispatch is over and the cursor is back at 0.
CursorBackAtZero ==
    /\ Len(dlog) = NUM_CLIENT
    /\ dpc = "idle"
    /\ idx = 0
    /\ DispatchedTo(2, 3) = <<1, 2>>

\* C17: once the decode loop is over, and so whenever the MIDI connection is
\* or has been open, no step changes the library: its entries, their order,
\* their notes and their buffers stay as they are.
LibraryImmutable ==
    [][(connected \/ mpc # "decode")
         => /\ sample_data' = sample_data
            /\ Len(sample_data') = Len(sample_data)
            /\ \A k \in 1 .. Len(sample_data) :
                  /\ sample_data'[k].note = sample_data[k].note
                  /\ sample_data'[k].data = sample_data[k].data]_vars

\* C17 witness: main has returned after four dispatches, and the library is
\* what the decode loop built.
LibraryAsBuilt ==
    /\ mpc = "done"
    /\ Len(dlog) = MaxDispatch
    /\ periods = 1
    /\ sample_data = <<[data |-> <<1, 2>>, note |-> 36],
                       [data |-> <<3>>, note |-> 38],
                       [data |-> <<4>>, note |-> 36]>>

\* The values sent into channel c so far, in the order they were sent.
PushedValues(c) == [k \in 1 .. Len(pushed[c]) |-> pushed[c][k].val]

\* C18: what the callback of client c has written so far, followed by what
\* the queue of channel c holds, is what has been sent into channel c so far.
FifoConservation ==
    \A c \in Chan : written[c] \o queue[c] = PushedValues(c)

\* C18 witness: the dispatch has sent its sample into channel 0 while the
\* callbacks of clients 0 and 1 were taking values: client 0 has written its
\* two first values and the sample waits, client 1 is between its two.
InterleavedPushAndPop ==
    /\ written[0] = <<Prime, Prime>>
    /\ queue[0] = <<3>>
    /\ written[1] = <<Prime>>
    /\ queue[1] = <<Prime>>
    /\ rslot[1] = 2
    /\ written[2] = <<>>
    /\ queue[2] = <<Prime, Prime>>

\* C19: the MIDI callback never panics, and while the connection is open or
\* a dispatch is sending, every sender's channel has its Receiver in the
\* receivers list, whether or not its client is still active.
PushNeverFails ==
    /\ <<"midi">> \notin panicked
    /\ (connected \/ dpc = "send")
          => /\ Len(senders) = NUM_CLIENT
             /\ \A k \in 1 .. Len(senders) : senders[k] \in Range(receivers)

\* C19 witness: every client has been deactivated, and a dispatch that has
\* sent its first sample is about to send the second into channel 0.
DispatchAfterDeactivation ==
    /\ mpc = "deactivate"
    /\ clients = <<>>
    /\ dpc = "send"
    /\ idx = 0
    /\ dpos = 1
    /\ DispatchedTo(0, Len(dlog)) = <<1>>

\* The two values the main thread sends into a channel.
Priming == <<[val |-> Prime, by |-> "main", n |-> 0],
             [val |-> Prime, by |-> "main", n |-> 0]>>

\* C20: until the MIDI connection is open, only the main thread sends, 0.3201
\* and at most twice into a channel; when the main thread is about to open it,
\* what has been sent into each channel is these two values and nothing else;
\* from then on these are the first two values sent into each channel and
\* everything after them is sent by the dispatcher; and the first two values
\* the callback of a client writes are 0.3201 sent by the main thread.
StartupPriming ==
    /\ (~connected /\ mpc # "done")
          => \A c \in Chan : \A k \in 1 .. Len(pushed[c]) :
                k <= 2 /\ pushed[c][k] = Priming[k]
    /\ mpc = "connect" => \A c \in Chan : pushed[c] = Priming
    /\ (connected \/ mpc = "done")
          => \A c \in Chan :
                /\ Len(pushed[c]) >= 2
                /\ SubSeq(pushed[c], 1, 2) = Priming
                /\ \A k \in 3 .. Len(pushed[c]) : pushed[c][k].by = "midi"
    /\ \A c \in Chan : \A k \in 1 .. Len(written[c]) :
          k <= 2 => /\ written[c][k] = Prime
                    /\ pushed[c][k].by = "main"

\* C20 witness: the main thread is about to open the MIDI connection; the
\* callback of client 0 has written both values of its channel, and the
\* callback of client 1 the first of its two.
PrimedBeforeConnect ==
    /\ mpc = "connect"
    /\ ~connected
    /\ written[0] = <<Prime, Prime>>
    /\ queue[0] = <<>>
    /\ written[1] = <<Prime>>
    /\ queue[1] = <<Prime>>
    /\ queue[2] = <<Prime, Prime>>

====
